---- MODULE Spec2Model ----
(***************************************************************************)
(* Model of the root module manager of terraform-ls                        *)
(* (internal/terraform/rootmodule/root_module_manager.go).                 *)
(*                                                                         *)
(* A path is a sequence of tokens: the separator "/" or a file name.       *)
(* The registry rmm.rms is a sequence of root module records; an entity is *)
(* identified by its position in the registry (0 stands for nil).          *)
(***************************************************************************)
EXTENDS Integers, Sequences, FiniteSets, Bags, TLC

\* ------------------------------------------------------------------ bounds
MaxRoots == 2
\* roots opened at once when the pool is to be filled
PoolRoots == 4
NumCPU == 1
\* defaultSize := 3 * runtime.NumCPU()
WorkerFactor == 3

\* ------------------------------------------------------------------- paths
Sep == "/"

\* an absolute path from its elements
Abs(elems) ==
  [k \in 1..(2 * Len(elems)) |-> IF k % 2 = 1 THEN Sep ELSE elems[k \div 2]]

RootDir == <<Sep>>
DirA == Abs(<<"p", "a">>)
DirB == Abs(<<"p", "b">>)
DirMod == Abs(<<"p", "a", "mod">>)

HasSuffix(s, suffix) ==
  /\ Len(suffix) <= Len(s)
  /\ SubSeq(s, Len(s) - Len(suffix) + 1, Len(s)) = suffix

TrimSuffix(s, suffix) ==
  IF HasSuffix(s, suffix) THEN SubSeq(s, 1, Len(s) - Len(suffix)) ELSE s

\* the elements of a path: what stands between its separators
RECURSIVE SplitPath(_)
SplitPath(s) ==
  IF s = <<>> THEN << <<>> >>
  ELSE LET rest == SplitPath(Tail(s)) IN
       IF Head(s) = Sep THEN << <<>> >> \o rest
       ELSE << <<Head(s)>> \o Head(rest) >> \o Tail(rest)

\* filepath.Clean's pass over the elements: "" and "." are dropped, ".."
\* removes the element before it (or is dropped at the root)
RECURSIVE CleanElems(_, _, _)
CleanElems(elems, rooted, out) ==
  IF elems = <<>> THEN out
  ELSE LET e == Head(elems) IN
       IF e = <<>> \/ e = <<".">> THEN CleanElems(Tail(elems), rooted, out)
       ELSE IF e = <<"..">> THEN
         IF out # <<>> /\ out[Len(out)] # <<"..">>
         THEN CleanElems(Tail(elems), rooted, SubSeq(out, 1, Len(out) - 1))
         ELSE IF rooted THEN CleanElems(Tail(elems), rooted, out)
         ELSE CleanElems(Tail(elems), rooted, Append(out, e))
       ELSE CleanElems(Tail(elems), rooted, Append(out, e))

RECURSIVE JoinElems(_)
JoinElems(elems) ==
  IF elems = <<>> THEN <<>>
  ELSE IF Len(elems) = 1 THEN Head(elems)
  ELSE Head(elems) \o <<Sep>> \o JoinElems(Tail(elems))

filepathClean(path) ==
  LET rooted == path # <<>> /\ Head(path) = Sep
      out == CleanElems(SplitPath(path), rooted, <<>>)
  IN IF out = <<>> THEN (IF rooted THEN <<Sep>> ELSE <<".">>)
     ELSE (IF rooted THEN <<Sep>> ELSE <<>>) \o JoinElems(out)

pathEquals(p1, p2) == p1 = p2

\* pluginLockFilePaths(string(os.PathSeparator)), in the order they are tried
pluginLockFilePaths ==
  << <<Sep, ".terraform", Sep, "plugins", Sep, "selections.json">>,
     <<Sep, ".terraform", Sep, "plugins", Sep, "linux_amd64", Sep, "lock.json">> >>

\* moduleManifestFilePath(string(os.PathSeparator))
moduleManifestFilePath ==
  <<Sep, ".terraform", Sep, "modules", Sep, "modules.json">>

\* the module manifest suffix forgotten
RECURSIVE trimLockFilesOnly(_, _)
trimLockFilesOnly(filePath, suffixes) ==
  IF suffixes = <<>> THEN filePath
  ELSE IF HasSuffix(filePath, Head(suffixes))
       THEN TrimSuffix(filePath, Head(suffixes))
       ELSE trimLockFilesOnly(filePath, Tail(suffixes))

RECURSIVE trimFirstSuffix(_, _)
trimFirstSuffix(filePath, suffixes) ==
  IF suffixes = <<>> THEN
    IF HasSuffix(filePath, moduleManifestFilePath)
    THEN TrimSuffix(filePath, moduleManifestFilePath)
    ELSE filePath
  ELSE IF HasSuffix(filePath, Head(suffixes))
       THEN TrimSuffix(filePath, Head(suffixes))
       ELSE trimFirstSuffix(filePath, Tail(suffixes))

\* ------------------------------------------------------------------ inputs
\* directories handed to AddAndStartLoadingRootModule (not all of them clean)
RawDirs == {DirA, DirA \o <<Sep>>, DirB, DirMod}

\* module directories a module manifest may name
ModulePaths == {DirMod}

\* paths handed to RootModuleByPath
QueryPaths ==
  RawDirs
  \cup {d \o s : d \in {DirA, DirB, DirMod},
                 s \in {pluginLockFilePaths[1], pluginLockFilePaths[2],
                        moduleManifestFilePath}}
  \cup {RootDir, RootDir \o Tail(moduleManifestFilePath),
        Abs(<<"p", "c">>), DirMod \o <<Sep>>,
        DirB \o <<Sep, "..", Sep, "a">>}

\* paths handed to RootModuleCandidatesByPath and SchemaForPath
CandidatePaths ==
  {DirA, DirB, DirMod, DirMod \o <<Sep>>,
   DirA \o moduleManifestFilePath, DirB \o pluginLockFilePaths[1],
   DirMod \o pluginLockFilePaths[2], Abs(<<"p", "c">>)}

\* paths handed to InitAndUpdateRootModule
ReinitPaths ==
  {DirA \o <<Sep>>, DirMod, DirB \o pluginLockFilePaths[1], Abs(<<"p", "c">>)}

\* filepath.Clean and trimLockFilePath over the paths of the model, computed
\* once
CleanTable == [p \in QueryPaths |-> filepathClean(p)]

\* a path handed on as it came, filepath.Clean forgotten
CleanForgotten(p) == p

Clean(p) == CleanTable[p]

CleanedPaths == {CleanTable[p] : p \in QueryPaths}

TrimTable == [p \in CleanedPaths |-> trimFirstSuffix(p, pluginLockFilePaths)]

trimLockFilePath(filePath) == TrimTable[filePath]

\* ------------------------------------------------------------------- state
VARIABLES
  rms,          \* rmm.rms: the registry, a sequence of root module records
  syncLoading,  \* rmm.syncLoading
  queue,        \* worker pool: the submitted load tasks that have not started
  active,       \* worker pool: the roots whose load task is executing
  stopped,      \* worker pool: Stop() was called
  pc,           \* the caller: "idle", inside CancelLoading, or panicked
  ci,           \* CancelLoading's position in its loop over rmm.rms
  ret,          \* what the call that returned in the last step gave back
  tfExec,       \* rmm.tfExecPath, rmm.tfExecTimeout, rmm.tfExecLogPath
  reqDone,      \* the context of the registering request is done
  calls,        \* the registrations concurrent threads are in the middle of
  cn            \* len(rmm.rms) as CancelLoading's range loop found it

vars ==
  <<rms, syncLoading, queue, active, stopped, pc, ci, ret, tfExec, reqDone,
    calls, cn>>

\* what the sequential caller's registrations, the pool and CancelLoading
\* leave alone
rest == <<tfExec, reqDone, calls, cn>>

\* workerpool.New(defaultSize)
WorkerPoolSize == WorkerFactor * NumCPU

NoRet == [op |-> "none", rm |-> 0, err |-> "nil"]

\* the zero values of the manager's toolchain defaults
NoTfExec == [path |-> "", timeout |-> 0, logPath |-> ""]

Init ==
  /\ rms = <<>>
  /\ syncLoading \in BOOLEAN
  /\ queue = <<>>
  /\ active = {}
  /\ stopped = FALSE
  /\ pc = "idle"
  /\ ci = 0
  /\ ret = NoRet
  /\ tfExec = NoTfExec
  /\ reqDone = FALSE
  /\ calls = EmptyBag
  /\ cn = 0

\* --------------------------------------------------------- the root entity
\* newRootModule(fs, dir) followed by discoverCaches: the entity as the factory
\* returns it. inited: the root's .terraform directory exists; refs: the module
\* directories of its manifest (a manifest lives under .terraform)
NewRootModules(dir) ==
  {rm \in [path : {dir}, inited : BOOLEAN, refs : SUBSET ModulePaths,
           schema : {"nil"}, loadErr : {FALSE}, cancelled : {FALSE},
           tfExec : {NoTfExec}] :
     rm.refs # {} => rm.inited}

\* the factory leaving the new root's toolchain settings at their zero values
FactoryWithoutDefaults(dir) == NewRootModules(dir)

\* rmm.defaultRootModuleFactory(ctx, dir), when discoverCaches gives no
\* error: rm.tfExecPath = rmm.tfExecPath, and so the timeout and the log path
defaultRootModuleFactory(dir) ==
  {[rm EXCEPT !.tfExec = tfExec] : rm \in NewRootModules(dir)}

\* rm.WasInitialized()
WasInitialized(rm) == rm.inited

\* rm.ReferencesModulePath(path)
ReferencesModulePath(rm, path) == \E m \in rm.refs : pathEquals(m, path)

\* rm.MergedSchema(): (schema, error)
MergedSchema(rm) ==
  [schema |-> IF rm.schema = "sch" THEN "sch" ELSE "nil",
   err |-> IF rm.schema = "err" THEN "merge" ELSE "nil"]

\* what a load can leave behind: a schema or a failure
LoadOutcomes == {"sch", "err"}

\* ctx.Done() is closed: context.Background() never is, the context of a
\* request is once the request has been answered or cancelled
ctxDone(ctx) == ctx = "request" /\ reqDone

\* rm.load(ctx): a load that finds its context done gives up with an error
LoadOutcomesUnder(ctx) == IF ctxDone(ctx) THEN {"err"} ELSE LoadOutcomes

\* rm.load(ctx): the entity after a load that ended with outcome o
LoadResult(rm, o) == [rm EXCEPT !.schema = o]

\* rm.load(ctx): the error a load with outcome o returns
LoadErr(o) == o = "err"

\* rm.setLoadErr(err)
setLoadErr(rm, failed) == [rm EXCEPT !.loadErr = failed]

\* ----------------------------------------------------------------- lookups
\* the scan passing over the roots whose load has not ended
RECURSIVE loadedRootModuleByPathFrom(_, _)
loadedRootModuleByPathFrom(k, dir) ==
  IF k > Len(rms) THEN 0
  ELSE IF pathEquals(rms[k].path, dir) /\ rms[k].schema # "nil" THEN k
  ELSE loadedRootModuleByPathFrom(k + 1, dir)

loadedRootModuleByPath(dir) == loadedRootModuleByPathFrom(1, dir)

RECURSIVE rootModuleByPathFrom(_, _)
rootModuleByPathFrom(k, dir) ==
  IF k > Len(rms) THEN 0
  ELSE IF pathEquals(rms[k].path, dir) THEN k
  ELSE rootModuleByPathFrom(k + 1, dir)

\* rmm.rootModuleByPath(dir): the entity found, 0 when there is none
rootModuleByPath(dir) == rootModuleByPathFrom(1, dir)

\* rmm.RootModuleByPath(path): (entity, error); a not-found error carries
\* the path
RootModuleByPath(p) ==
  LET path == Clean(p)
      dir == trimLockFilePath(path)
  IN IF rootModuleByPath(path) # 0
     THEN [rm |-> rootModuleByPath(path), err |-> "nil", path |-> <<>>]
     ELSE IF rootModuleByPath(dir) # 0
     THEN [rm |-> rootModuleByPath(dir), err |-> "nil", path |-> <<>>]
     ELSE [rm |-> 0, err |-> "notfound", path |-> path]

\* the direct match kept whether initialized or not
DirectCandidateUnfiltered(path) ==
  LET rm == rootModuleByPath(path)
      byDir == rootModuleByPath(trimLockFilePath(path))
  IN IF rm # 0 THEN <<rm>> ELSE IF byDir # 0 THEN <<byDir>> ELSE <<>>

\* the direct match of RootModuleCandidatesByPath, kept when initialized
DirectCandidate(path) ==
  LET rm == rootModuleByPath(path)
      byDir == rootModuleByPath(trimLockFilePath(path))
  IN IF rm # 0
     THEN (IF WasInitialized(rms[rm]) THEN <<rm>> ELSE <<>>)
     ELSE IF byDir # 0
     THEN (IF WasInitialized(rms[byDir]) THEN <<byDir>> ELSE <<>>)
     ELSE <<>>

\* the loop of RootModuleCandidatesByPath over rmm.rms
RECURSIVE ReferencingFrom(_, _)
ReferencingFrom(k, path) ==
  IF k > Len(rms) THEN <<>>
  ELSE (IF ReferencesModulePath(rms[k], path) THEN <<k>> ELSE <<>>)
       \o ReferencingFrom(k + 1, path)

\* the direct match appended after the referencing roots
CandidatesDirectLast(p) ==
  LET path == Clean(p)
  IN ReferencingFrom(1, path) \o DirectCandidate(path)

\* rmm.RootModuleCandidatesByPath(path): the candidates, in order
RootModuleCandidatesByPath(p) ==
  LET path == Clean(p)
  IN DirectCandidate(path) \o ReferencingFrom(1, path)

\* the loop giving up at the first candidate whose MergedSchema fails
RECURSIVE FirstSchemaOrError(_)
FirstSchemaOrError(candidates) ==
  IF candidates = <<>> THEN [rm |-> 0, schema |-> "nil", err |-> "nil"]
  ELSE LET rm == Head(candidates)
           got == MergedSchema(rms[rm])
       IN IF got.err # "nil" THEN [rm |-> rm, schema |-> "nil", err |-> got.err]
          ELSE IF got.schema # "nil"
          THEN [rm |-> rm, schema |-> got.schema, err |-> "nil"]
          ELSE FirstSchemaOrError(Tail(candidates))

\* the loop of SchemaForPath over the candidates
RECURSIVE FirstSchema(_)
FirstSchema(candidates) ==
  IF candidates = <<>> THEN [rm |-> 0, schema |-> "nil", err |-> "nil"]
  ELSE LET rm == Head(candidates)
           got == MergedSchema(rms[rm])
       IN IF got.err # "nil" THEN FirstSchema(Tail(candidates))
          ELSE IF got.schema # "nil"
          THEN [rm |-> rm, schema |-> got.schema, err |-> "nil"]
          ELSE FirstSchema(Tail(candidates))

\* SchemaForPath without the strict match to fall back on
SchemaOfCandidatesOnly(p) == FirstSchema(RootModuleCandidatesByPath(p))

\* rmm.SchemaForPath(path): (schema, error), and the root that gave it
SchemaForPath(p) ==
  LET found == FirstSchema(RootModuleCandidatesByPath(p))
      strict == RootModuleByPath(p)
  IN IF found.rm # 0 THEN found
     ELSE IF strict.err # "nil"
     THEN [rm |-> 0, schema |-> "nil", err |-> strict.err]
     ELSE [rm |-> strict.rm,
           schema |-> MergedSchema(rms[strict.rm]).schema,
           err |-> MergedSchema(rms[strict.rm]).err]

\* rmm.ListRootModules()
ListRootModules == [k \in 1..Len(rms) |-> k]

\* ----------------------------------------------------------------- actions
AddRet(rm, err) == [op |-> "add", rm |-> rm, err |-> err]

\* the load run inline whatever rmm.syncLoading says
LoadsInlineAlways == TRUE

\* the load handed to the pool whatever rmm.syncLoading says
LoadsInlineNever == FALSE

\* if rmm.syncLoading { return rm, rm.load(ctx) }
LoadsInline == syncLoading

\* the ctx handed to AddAndStartLoadingRootModule: the caller's request
RequestCtx == "request"

\* the submitted task loading under the context of the registering request
TaskCtxOfRequest == "request"

\* err := rm.load(context.Background())
TaskCtx == "background"

\* the entity appended before the factory's error is looked at
FactoryErrorAfterAppend(dir) ==
  /\ Len(rms) < MaxRoots
  /\ \E rm \in defaultRootModuleFactory(dir) : rms' = Append(rms, rm)
  /\ ret' = AddRet(0, "factory")
  /\ UNCHANGED <<rest, syncLoading, queue, active, stopped, pc, ci>>

\* rmm.newRootModule fails, discoverCaches having returned an error:
\* if err != nil { return nil, err }
FactoryError(dir) ==
  /\ ret' = AddRet(0, "factory")
  /\ UNCHANGED <<rest, rms, syncLoading, queue, active, stopped, pc, ci>>

\* the load task never handed to the pool
workerPoolSubmitDropped(i) == queue

\* rmm.workerPool.Submit(func() {...}): the task joins the waiting queue
workerPoolSubmit(i) == Append(queue, i)

\* the new root put in front of the registered ones
prependRoot(rm) == <<rm>> \o rms

\* rmm.rms = append(rmm.rms, rm)
appendRoot(rm) == Append(rms, rm)

\* rmm.AddAndStartLoadingRootModule(ctx, d), called by the idle caller
AddAndStartLoadingRootModule(d) ==
  /\ pc = "idle"
  /\ LET dir == Clean(d)
         new == Len(rms) + 1
     IN IF rootModuleByPath(dir) # 0
        THEN \* "root module %s was already added"
             /\ ret' = AddRet(0, "already")
             /\ UNCHANGED <<rest, rms, syncLoading, queue, active, stopped, pc, ci>>
        ELSE \/ FactoryError(dir)
             \/ /\ new <= MaxRoots
                /\ \E rm \in defaultRootModuleFactory(dir) :
                     IF LoadsInline
                     THEN \* return rm, rm.load(ctx)
                          \E o \in LoadOutcomesUnder(RequestCtx) :
                            /\ rms' = appendRoot(LoadResult(rm, o))
                            /\ ret' = AddRet(new, IF LoadErr(o) THEN "load" ELSE "nil")
                            /\ UNCHANGED <<rest, syncLoading, queue, active, stopped, pc, ci>>
                     ELSE IF stopped
                     THEN \* Submit on a stopped pool: a send on a closed
                          \* channel, the process panics
                          /\ rms' = appendRoot(rm)
                          /\ pc' = "panic"
                          /\ ret' = NoRet
                          /\ UNCHANGED <<rest, syncLoading, queue, active, stopped, ci>>
                     ELSE \* rmm.workerPool.Submit(...); return rm, nil
                          /\ rms' = appendRoot(rm)
                          /\ queue' = workerPoolSubmit(new)
                          /\ ret' = AddRet(new, "nil")
                          /\ UNCHANGED <<rest, syncLoading, active, stopped, pc, ci>>

\* a pool that starts a task whenever one is queued
FreeWorkerAlways == TRUE

\* workerpool.New(defaultSize): the pool has a worker free while fewer than
\* defaultSize tasks are running
FreeWorker == Cardinality(active) < WorkerPoolSize

\* the name under which the task of entity n runs: its place in the list, or
\* the next free name below zero when n is no longer in the list
Started(n) == IF n < 0 THEN -(Cardinality({m \in active : m < 0}) + 1) ELSE n

\* the worker pool starts the oldest submitted task on a free worker
WorkerStart ==
  /\ pc # "panic"
  /\ ~stopped
  /\ queue # <<>>
  /\ FreeWorker
  /\ active' = active \cup {Started(Head(queue))}
  /\ queue' = Tail(queue)
  /\ ret' = NoRet
  /\ UNCHANGED <<rest, rms, syncLoading, stopped, pc, ci>>

\* the submitted task ends with outcome o: err := rm.load(context.Background());
\* rm.setLoadErr(err)
WorkerFinishWith(i, o) ==
  /\ pc # "panic"
  /\ i \in active
  /\ o \in LoadOutcomesUnder(TaskCtx)
  /\ rms' = [rms EXCEPT ![i] = setLoadErr(LoadResult(rms[i], o), LoadErr(o))]
  /\ active' = active \ {i}
  /\ ret' = NoRet
  /\ UNCHANGED <<rest, syncLoading, queue, stopped, pc, ci>>

WorkerFinish(i) == \E o \in LoadOutcomes : WorkerFinishWith(i, o)

\* rmm.CancelLoading() is entered by the idle caller: the range loop takes
\* the list as it is now
CancelLoadingCall ==
  /\ pc = "idle"
  /\ pc' = "cancel"
  /\ ci' = 1
  /\ cn' = Len(rms)
  /\ ret' = NoRet
  /\ UNCHANGED <<rms, syncLoading, queue, active, stopped, tfExec, reqDone, calls>>

\* one round of the loop: rm.CancelLoading() for the next root (a root that a
\* racing append has pushed out of the list meanwhile is signalled all the
\* same, the registry does not show it)
CancelLoadingSignal ==
  /\ pc = "cancel"
  /\ ci <= cn
  /\ rms' = IF ci <= Len(rms) THEN [rms EXCEPT ![ci].cancelled = TRUE] ELSE rms
  /\ ci' = ci + 1
  /\ ret' = NoRet
  /\ UNCHANGED <<syncLoading, queue, active, stopped, pc, tfExec, reqDone, calls, cn>>

\* the pool stopped before the loop over the roots has ended
CancelLoadingStopsFirst ==
  /\ pc = "cancel"
  /\ stopped' = TRUE
  /\ queue' = <<>>
  /\ pc' = "stopwait"
  /\ ret' = NoRet
  /\ UNCHANGED <<rms, syncLoading, active, ci, tfExec, reqDone, calls, cn>>

\* rmm.workerPool.Stop() begins: nothing queued will start any more
CancelLoadingStop ==
  /\ pc = "cancel"
  /\ ci > cn
  /\ stopped' = TRUE
  /\ queue' = <<>>
  /\ pc' = "stopwait"
  /\ ret' = NoRet
  /\ UNCHANGED <<rms, syncLoading, active, ci, tfExec, reqDone, calls, cn>>

\* Stop() returns once the executing tasks have returned, and so does
\* CancelLoading
CancelLoadingReturn ==
  /\ pc = "stopwait"
  /\ active = {}
  /\ pc' = "idle"
  /\ ci' = 0
  /\ cn' = 0
  /\ ret' = [op |-> "cancel", rm |-> 0, err |-> "nil"]
  /\ UNCHANGED <<rms, syncLoading, queue, active, stopped, tfExec, reqDone, calls>>

\* ---------------------------------------------- registrations side by side
\* AddAndStartLoadingRootModule takes no lock: a call made while others are
\* under way goes step by step, each step one access to what the threads
\* share. A call under way is a record: where it stands (pc), the entity the
\* factory gave it (rm), the length of rmm.rms its append read (len) and the
\* entity it appended (idx). An entity is named by its place in rmm.rms; an
\* entity that a racing append has pushed out of the list lives on outside
\* it, under a name below zero. A call whose append read a list that a
\* store has since cut short (stale) is left where it stands: what its own
\* store would put back depends on how the runtime grew the list.

\* the calls under way but for c, and with c2 in its place
CallsBut(c) == calls (-) SetToBag({c})
CallsWith(c, c2) == CallsBut(c) (+) SetToBag({c2})

\* the entities the pool and the calls under way hold
HeldEntities ==
  {queue[k] : k \in 1..Len(queue)} \cup active
  \cup {c.idx : c \in BagToSet(calls)}

\* an entity that is no longer in the list, in the queue or in a call; the
\* model tells no two of them apart
Unlisted == -1

\* the running tasks of entities no longer in the list: -1, -2, ... -n
UnlistedActive == {n \in active : n < 0}

\* the name of entity k once an append that read length len has been stored:
\* the entities behind len are no longer in the list
AfterStore(k, len) == IF k > len THEN Unlisted ELSE k

\* the calls under way once such an append has been stored, S being those
\* not yet gone through
RECURSIVE CallsAfterStore(_, _, _)
CallsAfterStore(B, S, c) ==
  IF S = {} THEN EmptyBag
  ELSE LET o == CHOOSE x \in S : TRUE
           moved == [o EXCEPT !.idx = AfterStore(o.idx, c.len),
                              !.stale = o.stale \/ (o.pc = "write" /\ o.len > c.len)]
       IN [x \in {moved} |-> B[o]] (+) CallsAfterStore(B, S \ {o}, c)

\* the entities there are: those of the list, those the calls under way have
\* built, and those pushed out of the list that the pool still holds
Opened ==
  Len(rms) + BagCardinality(calls)
  + Cardinality({n \in {queue[k] : k \in 1..Len(queue)} \cup active : n < 0})

\* lines 117-128 of a call made beside others: the look for the directory
\* and the factory. bound caps the roots the model registers
AddBegin(d, bound) ==
  /\ pc # "panic"
  /\ LET dir == Clean(d)
     IN IF rootModuleByPath(dir) # 0
        THEN /\ ret' = AddRet(0, "already")
             /\ UNCHANGED <<rest, rms, syncLoading, queue, active, stopped, pc, ci>>
        ELSE \/ FactoryError(dir)
             \/ /\ Opened < bound
                /\ \E rm \in defaultRootModuleFactory(dir) :
                     calls' = calls (+) SetToBag({[pc |-> "append", rm |-> rm,
                                                  len |-> 0, idx |-> 0,
                                                  stale |-> FALSE]})
                /\ ret' = NoRet
                /\ UNCHANGED <<rms, syncLoading, queue, active, stopped, pc, ci,
                               tfExec, reqDone, cn>>

\* line 130, first half: append reads rmm.rms
AddAppendRead(c) ==
  /\ pc # "panic"
  /\ c \in BagToSet(calls) /\ c.pc = "append"
  /\ calls' = CallsWith(c, [c EXCEPT !.pc = "write", !.len = Len(rms)])
  /\ ret' = NoRet
  /\ UNCHANGED <<rms, syncLoading, queue, active, stopped, pc, ci, tfExec,
                 reqDone, cn>>

\* line 130, second half: the list of the length read, with the new entity
\* behind it, is stored in rmm.rms; what other threads appended since the
\* read is gone from the list
AddAppendStore(c) ==
  /\ pc # "panic"
  /\ c \in BagToSet(calls) /\ c.pc = "write" /\ ~c.stale
  /\ rms' = Append(SubSeq(rms, 1, c.len), c.rm)
  /\ queue' = [k \in 1..Len(queue) |-> AfterStore(queue[k], c.len)]
  /\ active' = {k \in active : 0 < k /\ k <= c.len}
                \cup {-j : j \in 1..Cardinality({k \in active : k < 0 \/ k > c.len})}
  /\ calls' =
          CallsAfterStore(CallsBut(c), BagToSet(CallsBut(c)), c)
          (+) SetToBag({[c EXCEPT !.pc = IF LoadsInline THEN "load" ELSE "submit",
                                  !.idx = c.len + 1]})
  /\ ret' = NoRet
  /\ UNCHANGED <<syncLoading, stopped, pc, ci, tfExec, reqDone, cn>>

\* lines 132-135 of a call made beside others: the load on the caller's
\* thread comes to its end
AddLoad(c) ==
  /\ pc # "panic"
  /\ c \in BagToSet(calls) /\ c.pc = "load"
  /\ \E o \in LoadOutcomesUnder(RequestCtx) :
       /\ rms' = IF c.idx > 0
                 THEN [rms EXCEPT ![c.idx] = LoadResult(rms[c.idx], o)]
                 ELSE rms
       /\ ret' = AddRet(c.idx, IF LoadErr(o) THEN "load" ELSE "nil")
  /\ calls' = CallsBut(c)
  /\ UNCHANGED <<syncLoading, queue, active, stopped, pc, ci, tfExec, reqDone, cn>>

\* lines 137-144 of a call made beside others: Submit, which panics on a
\* stopped pool
AddSubmit(c) ==
  /\ pc # "panic"
  /\ c \in BagToSet(calls) /\ c.pc = "submit"
  /\ calls' = CallsBut(c)
  /\ IF stopped
     THEN /\ pc' = "panic"
          /\ ret' = NoRet
          /\ UNCHANGED <<rms, syncLoading, queue, active, stopped, ci, tfExec,
                         reqDone, cn>>
     ELSE /\ queue' = workerPoolSubmit(c.idx)
          /\ ret' = AddRet(c.idx, "nil")
          /\ UNCHANGED <<rms, syncLoading, active, stopped, pc, ci, tfExec,
                         reqDone, cn>>

\* the submitted task of an entity that is no longer in the list ends
WorkerFinishUnlisted ==
  /\ pc # "panic"
  /\ UnlistedActive # {}
  /\ active' = active \ {-Cardinality(UnlistedActive)}
  /\ ret' = NoRet
  /\ UNCHANGED <<rest, rms, syncLoading, queue, stopped, pc, ci>>

\* what InitAndUpdateRootModule(dir) gives back, and the steps it went
\* through, each with its result
ReinitRet(dir, rm, err, steps) ==
  [op |-> "reinit", dir |-> dir, rm |-> rm, err |-> err, steps |-> steps]

\* rm.ExecuteTerraformInit(ctx): terraform init succeeds or fails; under a
\* context that is done it fails
InitOutcomesUnder(ctx) == IF ctxDone(ctx) THEN {"fail"} ELSE {"ok", "fail"}

\* the root after terraform init: a successful init leaves a .terraform
\* directory, a failed one may have left it or not
AfterInit(rm, io) ==
  IF io = "ok" THEN {[rm EXCEPT !.inited = TRUE]}
  ELSE {rm, [rm EXCEPT !.inited = TRUE]}

\* rootModule.discoverCaches(ctx, dir): the module manifest is read again
AfterDiscoverCaches(rm) ==
  {[rm EXCEPT !.refs = refs] : refs \in SUBSET ModulePaths}

\* rootModule.UpdateProviderSchemaCache(ctx, lockFile): the schema is
\* fetched and cached, or the fetch fails and the cache stays
AfterUpdateProviderSchemaCache(rm, uo) ==
  IF uo = "ok" THEN [rm EXCEPT !.schema = "sch"] ELSE rm

\* the error of init passed over
InitErrorIgnored(io) == FALSE

\* if err := rm.ExecuteTerraformInit(ctx); err != nil { return nil, ... }
InitError(io) == io = "fail"

\* rmm.InitAndUpdateRootModule(ctx, d), called by the idle caller
InitAndUpdateRootModule(d) ==
  /\ pc = "idle"
  /\ LET found == RootModuleByPath(d)
         i == found.rm
     IN IF found.err # "nil"
        THEN \* "failed to get root module"
             /\ ret' = ReinitRet(d, 0, "getroot", <<>>)
             /\ UNCHANGED <<rest, rms, syncLoading, queue, active, stopped, pc, ci>>
        ELSE \E io \in InitOutcomesUnder(RequestCtx) :
               \E rm1 \in AfterInit(rms[i], io) :
                 IF InitError(io)
                 THEN \* "failed to init root module"
                      /\ rms' = [rms EXCEPT ![i] = rm1]
                      /\ ret' = ReinitRet(d, 0, "init", << <<"init", io>> >>)
                      /\ UNCHANGED <<rest, syncLoading, queue, active, stopped, pc, ci>>
                 ELSE \E rm2 \in AfterDiscoverCaches(rm1) :
                        \E uo \in {"ok", "fail"} :
                          /\ rms' = [rms EXCEPT
                                       ![i] = AfterUpdateProviderSchemaCache(rm2, uo)]
                          /\ ret' = ReinitRet(d, i, IF uo = "ok" THEN "nil" ELSE "update",
                                              << <<"init", io>>,
                                                 <<"discoverCaches", "ok">>,
                                                 <<"UpdateProviderSchemaCache", uo>> >>)
                          /\ UNCHANGED <<rest, syncLoading, queue, active, stopped, pc, ci>>

\* the values the setters are called with
TfExecPaths == {"/opt/terraform"}
TfExecTimeouts == {30}
TfExecLogPaths == {"/tmp/tf.log"}

\* rmm.SetTerraformExecPath(path)
SetTerraformExecPath(path) ==
  /\ pc = "idle"
  /\ tfExec' = [tfExec EXCEPT !.path = path]
  /\ ret' = NoRet
  /\ UNCHANGED <<rms, syncLoading, queue, active, stopped, pc, ci, reqDone, calls, cn>>

\* rmm.SetTerraformExecLogPath(logPath)
SetTerraformExecLogPath(logPath) ==
  /\ pc = "idle"
  /\ tfExec' = [tfExec EXCEPT !.logPath = logPath]
  /\ ret' = NoRet
  /\ UNCHANGED <<rms, syncLoading, queue, active, stopped, pc, ci, reqDone, calls, cn>>

\* rmm.SetTerraformExecTimeout(timeout)
SetTerraformExecTimeout(timeout) ==
  /\ pc = "idle"
  /\ tfExec' = [tfExec EXCEPT !.timeout = timeout]
  /\ ret' = NoRet
  /\ UNCHANGED <<rms, syncLoading, queue, active, stopped, pc, ci, reqDone, calls, cn>>

\* the environment: a root's .terraform directory appears or goes away
DotTerraformChanged(i) ==
  /\ pc # "panic"
  /\ i \in 1..Len(rms)
  /\ rms' = [rms EXCEPT ![i].inited = ~rms[i].inited]
  /\ ret' = NoRet
  /\ UNCHANGED <<rest, syncLoading, queue, active, stopped, pc, ci>>

Next ==
  \/ \E d \in RawDirs : AddAndStartLoadingRootModule(d)
  \/ WorkerStart
  \/ \E i \in 1..Len(rms) : WorkerFinish(i)
  \/ CancelLoadingCall
  \/ CancelLoadingSignal
  \/ CancelLoadingStop
  \/ CancelLoadingReturn
  \/ \E i \in 1..Len(rms) : DotTerraformChanged(i)

Spec == Init /\ [][Next]_vars

\* the environment: the request that made the registrations is answered or
\* cancelled, its context is done
RequestCtxDone ==
  /\ pc # "panic"
  /\ ~reqDone
  /\ reqDone' = TRUE
  /\ ret' = NoRet
  /\ UNCHANGED <<rms, syncLoading, queue, active, stopped, pc, ci, tfExec, calls, cn>>

\* the manager and the request whose context comes to its end
NextCtx ==
  \/ Next
  \/ RequestCtxDone

SpecCtx == Init /\ [][NextCtx]_vars

\* directories registered from several threads at once
ConcDirs == {DirA, DirA \o <<Sep>>, DirB}

\* the manager called from several threads at once: the registrations go
\* step by step beside each other, the pool's tasks and CancelLoading
NextConc ==
  \/ \E d \in ConcDirs : AddBegin(d, MaxRoots)
  \/ \E c \in BagToSet(calls) : AddAppendRead(c)
  \/ \E c \in BagToSet(calls) : AddAppendStore(c)
  \/ \E c \in BagToSet(calls) : AddLoad(c)
  \/ \E c \in BagToSet(calls) : AddSubmit(c)
  \/ WorkerStart
  \/ \E i \in 1..Len(rms) : WorkerFinish(i)
  \/ WorkerFinishUnlisted
  \/ CancelLoadingCall
  \/ CancelLoadingSignal
  \/ CancelLoadingStop
  \/ CancelLoadingReturn

SpecConc == Init /\ [][NextConc]_vars

\* directories opened one after the other, their registrations under way
\* side by side
PoolDirs == <<DirA, DirB, DirMod, Abs(<<"p", "c">>), RootDir>>

\* none of the directories opened has a .terraform directory
NoDotTerraform ==
  /\ \A i \in 1..Len(rms) : ~rms[i].inited
  /\ \A c \in BagToSet(calls) : ~c.rm.inited

\* many roots opened at once, in either loading mode: the registrations go
\* step by step beside each other while the pool runs what was submitted
NextPool ==
  \/ /\ Opened < Len(PoolDirs)
     /\ AddBegin(PoolDirs[Opened + 1], PoolRoots)
     /\ NoDotTerraform'
  \/ \E c \in BagToSet(calls) : AddAppendRead(c)
  \/ \E c \in BagToSet(calls) : AddAppendStore(c)
  \/ \E c \in BagToSet(calls) : AddLoad(c)
  \/ \E c \in BagToSet(calls) : AddSubmit(c)
  \/ WorkerStart
  \/ \E i \in 1..Len(rms) : WorkerFinish(i)
  \/ WorkerFinishUnlisted

SpecPool == Init /\ [][NextPool]_vars

\* the manager whose loading is never cancelled, its pool workers scheduled
\* fairly and every load coming to an end
NextLive ==
  \/ \E d \in RawDirs : AddAndStartLoadingRootModule(d)
  \/ WorkerStart
  \/ \E i \in 1..Len(rms) : WorkerFinish(i)
  \/ \E i \in 1..Len(rms) : DotTerraformChanged(i)

SpecLive ==
  /\ Init /\ [][NextLive]_vars
  /\ WF_vars(WorkerStart)
  /\ \A i \in 1..MaxRoots : WF_vars(WorkerFinish(i))

\* the manager with its roots initialized again on request
NextReinit ==
  \/ \E d \in RawDirs : AddAndStartLoadingRootModule(d)
  \/ WorkerStart
  \/ \E i \in 1..Len(rms) : WorkerFinish(i)
  \/ CancelLoadingCall
  \/ CancelLoadingSignal
  \/ CancelLoadingStop
  \/ CancelLoadingReturn
  \/ \E d \in ReinitPaths : InitAndUpdateRootModule(d)

SpecReinit == Init /\ [][NextReinit]_vars

\* the manager whose toolchain defaults are set between the registrations
NextConfig ==
  \/ \E d \in RawDirs : AddAndStartLoadingRootModule(d)
  \/ WorkerStart
  \/ \E i \in 1..Len(rms) : WorkerFinish(i)
  \/ \E path \in TfExecPaths : SetTerraformExecPath(path)
  \/ \E logPath \in TfExecLogPaths : SetTerraformExecLogPath(logPath)
  \/ \E timeout \in TfExecTimeouts : SetTerraformExecTimeout(timeout)

SpecConfig == Init /\ [][NextConfig]_vars

\* ------------------------------------------------------------------ claims
\* a root is registered at path q
Registered(q) == \E i \in 1..Len(rms) : rms[i].path = q

\* the registered roots whose path is q
EntitiesAt(q) == {i \in 1..Len(rms) : rms[i].path = q}

\* the step is the return of an AddAndStartLoadingRootModule call
AddReturns == ret'.op = "add"

\* the step is the return of AddAndStartLoadingRootModule(d)
AddReturnsFor(d) == AddReturns /\ AddAndStartLoadingRootModule(d)

\* filepath.Clean of the directories handed to the registration
CleanedDir == [d \in RawDirs |-> filepathClean(d)]

\* C1: the first successful AddAndStartLoadingRootModule(d) registers
\* Clean(d); every later call whose cleaned directory is registered returns
\* the 'already added' error, leaves the registry as it was, with exactly one
\* entity for that directory, and submits no load task.
C1_SecondAddIsRejected ==
  [][\A d \in RawDirs : AddReturnsFor(d) =>
       LET dir == CleanedDir[d] IN
       /\ Registered(dir) =>
            /\ ret'.err = "already" /\ ret'.rm = 0
            /\ rms' = rms /\ queue' = queue /\ active' = active
            /\ Cardinality(EntitiesAt(dir)) = 1
       /\ (~Registered(dir) /\ ret'.err \in {"nil", "load"}) =>
            /\ Len(rms') = Len(rms) + 1
            /\ SubSeq(rms', 1, Len(rms)) = rms
            /\ rms'[Len(rms')].path = dir
            /\ ret'.rm = Len(rms')]_vars

\* C1 witness: /p/a is the one registered root and a second call for it has
\* just been rejected while the first load is pending
C1_Witness ==
  /\ ret.op = "add" /\ ret.err = "already"
  /\ Len(rms) = 1 /\ rms[1].path = DirA
  /\ queue = <<1>>

\* the suffixes trimLockFilePath knows
KnownSuffixes ==
  {pluginLockFilePaths[k] : k \in 1..Len(pluginLockFilePaths)}
  \cup {moduleManifestFilePath}

\* the roots registered at q with a known suffix taken off
EntitiesAtTrimmed(q) ==
  {i \in 1..Len(rms) :
     \E s \in KnownSuffixes : HasSuffix(q, s) /\ rms[i].path = TrimSuffix(q, s)}

Members(c) == {c[k] : k \in 1..Len(c)}

\* the registered roots whose module manifest names the cleaned path q
Referencing(q) == {i \in 1..Len(rms) : q \in rms[i].refs}

Followers(p) ==
  LET c == RootModuleCandidatesByPath(p)
      direct == RootModuleByPath(p).rm
  IN IF direct # 0 /\ rms[direct].inited THEN Tail(c) ELSE c

\* C4: in RootModuleCandidatesByPath(p) the direct match, if included, comes
\* first, and the roots referencing the path follow in registry order; with
\* /p/a and /p/b registered in that order and both referencing /p/a/mod, the
\* candidates for /p/a/mod are [/p/a, /p/b].
C4_DirectFirstThenRegistryOrder ==
  /\ \A p \in CandidatePaths :
       LET c == RootModuleCandidatesByPath(p)
           direct == RootModuleByPath(p).rm
           f == Followers(p)
       IN /\ (direct # 0 /\ rms[direct].inited) => (c # <<>> /\ c[1] = direct)
          /\ \A k \in 1..Len(f) : \A l \in 1..Len(f) : k < l => f[k] < f[l]
          /\ Members(f) = Referencing(Clean(p))
  /\ ( /\ Len(rms) = 2
       /\ rms[1].path = DirA /\ rms[2].path = DirB
       /\ DirMod \in rms[1].refs /\ DirMod \in rms[2].refs )
     => RootModuleCandidatesByPath(DirMod) = <<1, 2>>

\* C4 witness: /p/a and /p/b, registered in that order, both reference
\* /p/a/mod
C4_Witness ==
  /\ Len(rms) = 2
  /\ rms[1].path = DirA /\ rms[2].path = DirB
  /\ DirMod \in rms[1].refs /\ DirMod \in rms[2].refs
  /\ RootModuleCandidatesByPath(DirMod \o <<Sep>>) = <<1, 2>>

\* the root's MergedSchema() gives a schema and no error
GivesSchema(i) ==
  MergedSchema(rms[i]).err = "nil" /\ MergedSchema(rms[i]).schema # "nil"

\* the positions of a candidate list whose root gives a schema
Giving(c) == {k \in 1..Len(c) : GivesSchema(c[k])}

\* C5: SchemaForPath(p) returns, with no error, the schema of the first
\* candidate of RootModuleCandidatesByPath(p) that gives one; the candidates
\* before it, whose MergedSchema() failed or gave nil, are skipped.
C5_FirstCandidateWithSchema ==
  \A p \in CandidatePaths :
    LET c == RootModuleCandidatesByPath(p)
        r == SchemaForPath(p)
    IN Giving(c) # {} =>
         LET first == CHOOSE k \in Giving(c) : \A l \in Giving(c) : k <= l
         IN r = [rm |-> c[first], schema |-> "sch", err |-> "nil"]

\* C5 witness: the first candidate's MergedSchema() fails and the second
\* candidate supplies the schema
C5_Witness ==
  \E p \in CandidatePaths :
    LET c == RootModuleCandidatesByPath(p) IN
    /\ Len(c) >= 2
    /\ MergedSchema(rms[c[1]]).err # "nil"
    /\ GivesSchema(c[2])
    /\ SchemaForPath(p).rm = c[2]

\* C6: when no candidate gives a schema, SchemaForPath(p) returns what the
\* strict match gives: the not-found error of RootModuleByPath(p), whether or
\* not roots reference p, else the MergedSchema() result or error of the
\* root found, also when that root is uninitialized and so no candidate.
C6_FallsBackToStrictMatch ==
  \A p \in CandidatePaths :
    LET c == RootModuleCandidatesByPath(p)
        r == SchemaForPath(p)
        strict == RootModuleByPath(p)
    IN Giving(c) = {} =>
         IF strict.err # "nil"
         THEN r = [rm |-> 0, schema |-> "nil", err |-> "notfound"]
         ELSE r = [rm |-> strict.rm,
                   schema |-> MergedSchema(rms[strict.rm]).schema,
                   err |-> MergedSchema(rms[strict.rm]).err]

\* C6 witness: a path with a referencing candidate and no root of its own
\* ends not found, and an uninitialized root that is no candidate supplies
\* its schema by the strict match
C6_Witness ==
  /\ \E p \in CandidatePaths :
       /\ RootModuleCandidatesByPath(p) # <<>>
       /\ SchemaForPath(p).err = "notfound"
  /\ \E p \in CandidatePaths :
       LET strict == RootModuleByPath(p) IN
       /\ strict.rm # 0
       /\ ~rms[strict.rm].inited
       /\ strict.rm \notin Members(RootModuleCandidatesByPath(p))
       /\ SchemaForPath(p) = [rm |-> strict.rm, schema |-> "sch", err |-> "nil"]

\* the step registers a new root and returns it
AddReturnsNewRoot == AddReturns /\ ret'.err \notin {"already", "factory"}

\* C7: with syncLoading = false, AddAndStartLoadingRootModule on a new
\* directory whose entity was built returns the entity and a nil error with
\* the load only submitted, not run; a load failure is recorded on the entity
\* by the load task alone, and no call returns it.
C7_AsyncAddReturnsNoLoadError ==
  /\ [](~syncLoading => ret.err # "load")
  /\ [][(~syncLoading /\ AddReturnsNewRoot) =>
          LET new == Len(rms) + 1 IN
          /\ ret'.err = "nil" /\ ret'.rm = new
          /\ Len(rms') = new
          /\ rms'[new].schema = "nil" /\ ~rms'[new].loadErr
          /\ queue' = Append(queue, new)
          /\ active' = active]_vars
  /\ [][\A i \in 1..Len(rms) :
          rms'[i].loadErr # rms[i].loadErr =>
            /\ i \in active /\ i \notin active'
            /\ rms'[i].loadErr = (rms'[i].schema = "err")
            /\ ret'.op = "none"]_vars

\* C7 witness: a registration has just returned a new root with a nil error
\* while an earlier root carries the error of its failed load
C7_Witness ==
  /\ ~syncLoading
  /\ ret.op = "add" /\ ret.err = "nil" /\ ret.rm = 2
  /\ rms[1].loadErr

\* C8: with syncLoading = true, AddAndStartLoadingRootModule returns after
\* the load has ended, with the load's error as its error; nothing is handed
\* to the worker pool; the root stays registered when the load failed, so
\* that registering its directory again gives 'already added'.
C8_SyncAddReturnsLoadError ==
  /\ [](syncLoading => (queue = <<>> /\ active = {}))
  /\ [][(syncLoading /\ AddReturnsNewRoot) =>
          LET new == Len(rms) + 1 IN
          /\ ret'.rm = new /\ Len(rms') = new
          /\ rms'[new].schema \in LoadOutcomes
          /\ ret'.err = (IF LoadErr(rms'[new].schema) THEN "load" ELSE "nil")]_vars
  /\ [][\A d \in RawDirs : (syncLoading /\ AddReturnsFor(d)) =>
          IF \E i \in 1..Len(rms) :
               rms[i].path = CleanedDir[d] /\ rms[i].schema = "err"
          THEN ret'.err = "already" /\ rms' = rms
          ELSE AddReturnsNewRoot => rms'[Len(rms')].path = CleanedDir[d]]_vars

\* C8 witness: a synchronous registration has just returned the error of its
\* failed load, and the root is in the registry
C8_Witness ==
  /\ syncLoading
  /\ ret.op = "add" /\ ret.err = "load"
  /\ ret.rm = Len(rms) /\ rms[ret.rm].schema = "err"

\* every registered root has had its cancellation signalled
AllCancelled == \A i \in 1..Len(rms) : rms[i].cancelled

\* what the manager and its pool hold of each root: everything but the
\* root's .terraform directory, which is the environment's
LoadingState ==
  [i \in 1..Len(rms) |->
     <<rms[i].path, rms[i].refs, rms[i].schema, rms[i].loadErr,
       rms[i].cancelled>>]

\* the caller is inside CancelLoading
Cancelling == pc \in {"cancel", "stopwait"}

\* C9: CancelLoading signals the cancellation of every registered root, in
\* registry order, before it stops the worker pool; when it returns nothing
\* is executing and nothing is queued, and no task starts afterwards; a
\* second call goes through without blocking and changes nothing.
C9_CancelThenStop ==
  /\ [][(pc = "cancel" /\ pc' = "stopwait") => AllCancelled]_vars
  /\ [][(stopped' /\ ~stopped) => (pc = "cancel" /\ AllCancelled)]_vars
  /\ [][\A i \in 1..Len(rms) :
          (rms'[i].cancelled /\ ~rms[i].cancelled) =>
            /\ pc = "cancel"
            /\ \A j \in 1..(i - 1) : rms[j].cancelled]_vars
  /\ [][ret'.op = "cancel" =>
          (stopped' /\ active' = {} /\ queue' = <<>>)]_vars
  /\ [][stopped => (active' \subseteq active /\ queue' = <<>>)]_vars
  /\ [][(Cancelling /\ stopped /\ active = {} /\ AllCancelled) =>
          (LoadingState' = LoadingState /\ queue' = queue
           /\ active' = active /\ stopped' = stopped /\ pc' # "panic")]_vars
  /\ [](Cancelling =>
          ENABLED (\/ CancelLoadingSignal \/ CancelLoadingStop
                   \/ CancelLoadingReturn
                   \/ \E i \in active : WorkerFinish(i)))

\* C9 witness: a second CancelLoading call has gone through its loop, after
\* the first one stopped the pool and abandoned the queued load of root 2
C9_Witness ==
  /\ ~syncLoading
  /\ pc = "cancel" /\ stopped /\ ci > Len(rms)
  /\ Len(rms) = 2 /\ AllCancelled
  /\ rms[1].schema # "nil" /\ rms[2].schema = "nil"

\* C10: after an asynchronous AddAndStartLoadingRootModule(d) put the root
\* in the registry, RootModuleByPath(d) returns that entity, never not
\* found, whether its load task is queued, executing, ended or cancelled;
\* what the entity shows of its load is one of the defined outcomes, and
\* the pool is never stuck with a task it cannot start or end.
C10_LookupDuringLoad ==
  ~syncLoading =>
    /\ \A i \in 1..Len(rms) :
         /\ \A d \in RawDirs :
              Clean(d) = rms[i].path =>
                RootModuleByPath(d) = [rm |-> i, err |-> "nil", path |-> <<>>]
         /\ MergedSchema(rms[i]) \in
              {[schema |-> "nil", err |-> "nil"],
               [schema |-> "sch", err |-> "nil"],
               [schema |-> "nil", err |-> "merge"]}
         /\ rms[i].loadErr => rms[i].schema = "err"
    /\ (pc # "panic" /\ (queue # <<>> \/ active # {})) =>
         ENABLED (WorkerStart \/ \E i \in active : WorkerFinish(i))

\* C10 witness: /p/a is found, by a path that is not clean, while its load
\* task is executing and already cancelled and a second root is still queued
C10_Witness ==
  /\ ~syncLoading
  /\ Len(rms) = 2 /\ rms[1].path = DirA
  /\ 1 \in active /\ rms[1].cancelled
  /\ queue = <<2>>
  /\ RootModuleByPath(DirA \o <<Sep>>).rm = 1

\* C11: a root's toolchain exec path, timeout and log path are the manager's
\* defaults at the moment the root is created, and no later step changes
\* them: a setter changes its one default of the manager and nothing of any
\* registered root.
C11_DefaultsAreCopiedAtCreation ==
  /\ [][AddReturnsNewRoot =>
          /\ Len(rms') = Len(rms) + 1
          /\ rms'[Len(rms')].tfExec = tfExec]_vars
  /\ [][\A i \in 1..Len(rms) : rms'[i].tfExec = rms[i].tfExec]_vars
  /\ [][tfExec' # tfExec =>
          /\ rms' = rms
          /\ Cardinality({f \in {"path", "timeout", "logPath"} :
                            tfExec'[f] # tfExec[f]}) = 1]_vars

\* C11 witness: the first root keeps the zero values it was created with,
\* the second root the exec path set before it was created, and the manager's
\* timeout and log path have been set since
C11_Witness ==
  /\ Len(rms) = 2
  /\ rms[1].tfExec = NoTfExec
  /\ rms[2].tfExec = [NoTfExec EXCEPT !.path = "/opt/terraform"]
  /\ tfExec = [path |-> "/opt/terraform", timeout |-> 30, logPath |-> "/tmp/tf.log"]

C18_FactoryErrorRegistersNothing ==
  [][\A d \in RawDirs :
       (AddReturnsFor(d) /\ ret'.err = "factory") =>
         /\ ret'.rm = 0
         /\ rms' = rms /\ queue' = queue /\ active' = active
         /\ stopped' = stopped /\ pc' = pc
         /\ ~Registered(CleanedDir[d])
         /\ rootModuleByPath(CleanedDir[d])' = 0
         /\ RootModuleByPath(d)' =
              [rm |-> 0, err |-> "notfound", path |-> CleanedDir[d]]]_vars

\* C18 witness: a registration has just failed in the factory, in
\* asynchronous mode, while another root is registered and its load queued
C18_Witness ==
  /\ ~syncLoading
  /\ ret.op = "add" /\ ret.err = "factory"
  /\ Len(rms) = 1 /\ queue = <<1>>

\* C19 as stated: for every path p, RootModuleCandidatesByPath(p) holds each
\* registered root at most once; the direct match is not listed again as a
\* referencing root.
C19_AsStated ==
  \A p \in CandidatePaths :
    LET c == RootModuleCandidatesByPath(p) IN
    \A k \in 1..Len(c) : \A l \in 1..Len(c) : c[k] = c[l] => k = l

\* the paths of the registered roots, in registry order
RootPaths == [i \in 1..Len(rms) |-> rms[i].path]

\* C15: the registry is append-only: every step leaves the roots registered
\* before it where they were, in the same order, each with its path, and a
\* step adds at most one root, at the end; ListRootModules returns the roots
\* in that order, the order of their insertion.
C15_RegistryIsAppendOnly ==
  /\ [][/\ Len(rms') \in {Len(rms), Len(rms) + 1}
        /\ SubSeq(RootPaths', 1, Len(rms)) = RootPaths
        /\ Len(rms') = Len(rms) + 1 => AddReturns \/ pc' = "panic"]_vars
  /\ [](/\ Len(ListRootModules) = Len(rms)
        /\ \A k \in 1..Len(rms) : ListRootModules[k] = k)

\* C15 witness: a second root has just been appended behind the first, after
\* the first was loaded and the loading was cancelled
C15_Witness ==
  /\ Len(rms) = 2 /\ ret.op = "add" /\ ret.rm = 2
  /\ rms[1].schema # "nil" /\ rms[1].cancelled
  /\ ListRootModules = <<1, 2>>

\* what a root has cached of its directory: manifest references and schema
CachedState == [i \in 1..Len(rms) |-> <<rms[i].refs, rms[i].schema, rms[i].loadErr>>]

\* C17: InitAndUpdateRootModule(dir) hands nothing to the worker pool and
\* goes through init, cache discovery and the schema cache update in that
\* order; when dir resolves to no registered root it returns an error and
\* init is not invoked; when init fails it returns an error, neither of the
\* two later steps is run and what the root has cached is as it was.
C17_InitThenDiscoverThenUpdate ==
  [][ret'.op = "reinit" =>
          /\ queue' = queue /\ active' = active /\ stopped' = stopped
          /\ Len(rms') = Len(rms) /\ RootPaths' = RootPaths
          /\ \/ ret'.steps = <<>>
             \/ /\ Len(ret'.steps) = 1
                /\ ret'.steps[1] = <<"init", "fail">>
                /\ ret'.err = "init" /\ ret'.rm = 0
                /\ CachedState' = CachedState
             \/ /\ Len(ret'.steps) = 3
                /\ ret'.steps[1] = <<"init", "ok">>
                /\ ret'.steps[2][1] = "discoverCaches"
                /\ ret'.steps[3][1] = "UpdateProviderSchemaCache"
                /\ ret'.rm # 0
                /\ ret'.err = (IF ret'.steps[3][2] = "ok" THEN "nil" ELSE "update")
          /\ LET found == RootModuleByPath(ret'.dir)
             IN IF found.err # "nil"
                THEN ret'.steps = <<>> /\ ret'.err = "getroot" /\ ret'.rm = 0
                     /\ rms' = rms
                ELSE ret'.steps # <<>> /\ ret'.err # "getroot"
                     /\ ret'.rm \in {0, found.rm}]_vars

\* C17 witness: the init of a root has just failed while the load task of
\* that root is executing, and the root keeps the schema it had cached
C17_Witness ==
  /\ ret.op = "reinit" /\ ret.err = "init"
  /\ Len(rms) = 1 /\ active = {1}
  /\ rms[1].schema = "sch"

\* the load task of root i has run to its end and left its result on the
\* entity
LoadEnded(i) ==
  /\ Len(rms) >= i
  /\ rms[i].schema \in LoadOutcomes
  /\ rms[i].loadErr = LoadErr(rms[i].schema)
  /\ i \notin active
  /\ \A k \in 1..Len(queue) : queue[k] # i

C20_AsStated ==
  ~syncLoading =>
    /\ pc # "panic"
    /\ (stopped /\ pc = "idle" /\ calls = EmptyBag) =>
         /\ \A i \in 1..Len(rms) : rms[i].cancelled
         /\ active = {}


\* ---------------------------------------------------------------- C13
\* the loads executing: the tasks the pool is running and the loads running
\* on the threads of callers in synchronous mode
InlineLoads ==
  BagCardinality([c \in {x \in BagToSet(calls) : x.pc = "load"} |-> calls[c]])

LoadsExecuting == Cardinality(active) + InlineLoads

\* C13 as stated: in every reachable state, however many roots are registered
\* and in either loading mode, the number of root loads executing at the same
\* time is at most the size of the worker pool, 3 x NumCPU.
C13_AsStated == LoadsExecuting <= WorkerPoolSize

\* C13, amended: the pool never runs more than 3 x NumCPU load tasks at the
\* same time, which in asynchronous mode bounds all the loads executing; a
\* load of synchronous mode runs on its caller's thread, outside the pool.
C13_PoolRunsAtMostItsSize ==
  /\ Cardinality(active) <= WorkerPoolSize
  /\ ~syncLoading => LoadsExecuting <= WorkerPoolSize
  /\ syncLoading => active = {} /\ queue = <<>>

\* the pool is full and a submitted load waits for a worker
C13_Witness ==
  /\ ~syncLoading
  /\ Cardinality(active) = WorkerPoolSize
  /\ queue # <<>>

====
